---- MODULE Spec2Model ----
(***************************************************************************)
(* jrpc-types: the JSON-RPC 2.0 envelopes (Request, Notification,          *)
(* Response), their Id / Params / version components, the serde codecs     *)
(* derived for them and the typestate builders.                            *)
(*                                                                         *)
(* JSON text is modelled by its parse tree.  A JSON object is the sequence *)
(* of its (key, value) entries in document order, which is what the serde  *)
(* visitors of the envelopes see; the tokenizer of serde_json is not       *)
(* modelled.                                                               *)
(***************************************************************************)
EXTENDS Integers, Sequences, FiniteSets, TLC

VARIABLES
    builder,   \* the builder chain in progress (typestate markers and fields)
    env,       \* the envelope last produced, and by what ("build", "decode")
    text,      \* the JSON document last produced by an encode or handed in
    src,       \* the envelope `text` was encoded from, when it was encoded
    outcome,   \* how the last operation ended: "ok", "err", "panic"
    last,      \* the last operation, with the argument it was given
    conv       \* the last stand-alone conversion (Id extraction, Params
               \* construction): its input and its result

vars == <<builder, env, text, src, outcome, last, conv>>

---------------------------------------------------------------------------
(* Bounds of the model *)

\* arrays of the sample JSON values have 0..MaxArrayLen elements
MaxArrayLen == 1
\* integer ids handed to the builders range over 0..MaxIdNum
MaxIdNum == 1

---------------------------------------------------------------------------
(* Option<T> and Result<T, E> *)

None == [some |-> FALSE]
Some(x) == [some |-> TRUE, v |-> x]
Ok(x) == [ok |-> TRUE, v |-> x]
Err == [ok |-> FALSE]

---------------------------------------------------------------------------
(* serde_json::Value.  A number keeps whether its literal is integral      *)
(* (frac = FALSE, value n) or has a fraction or exponent (frac = TRUE,     *)
(* value n/2), and the narrowest integer type an integral literal fits     *)
(* (mag), since the machine integers of TLC are narrower than i64.         *)

JNull == [kind |-> "Null"]
JBool(b) == [kind |-> "Bool", b |-> b]
JInt(n) == [kind |-> "Number", frac |-> FALSE, n |-> n, mag |-> "i32"]
JBig(n, m) == [kind |-> "Number", frac |-> FALSE, n |-> n, mag |-> m]
JFrac(h) == [kind |-> "Number", frac |-> TRUE, n |-> h, mag |-> "f"]
JStr(s) == [kind |-> "String", s |-> s]
JArr(items) == [kind |-> "Array", items |-> items]
JObj(ents) == [kind |-> "Object", ents |-> ents]
Entry(k, v) == [k |-> k, v |-> v]

Ones(n) == [i \in 1..n |-> JInt(1)]

Scalars == {JNull, JBool(TRUE), JInt(1), JFrac(3), JStr("x")}
Structured == {JArr(Ones(n)) : n \in 0..MaxArrayLen}
                  \cup {JObj(<<>>), JObj(<<Entry("a", JInt(1))>>)}
SampleValues == Scalars \cup Structured

---------------------------------------------------------------------------
(* Entries of a JSON object, as a serde MapAccess walks them *)

Has(doc, k) == \E i \in 1..Len(doc) : doc[i].k = k
Count(doc, k) == Cardinality({i \in 1..Len(doc) : doc[i].k = k})
Get(doc, k) == doc[CHOOSE i \in 1..Len(doc) :
                      doc[i].k = k /\ \A j \in 1..(i - 1) : doc[j].k # k].v
Keys(doc) == {doc[i].k : i \in 1..Len(doc)}

---------------------------------------------------------------------------
(* version.rs *)

\* As version_deserialize, but any string is taken.
version_deserialize_lax(v) ==
    IF v.kind = "String" THEN Ok(v.s) ELSE Err

version_deserialize(v) ==
    IF v.kind = "String"
    THEN IF v.s = "2.0" THEN Ok(v.s) ELSE Err
    ELSE Err

---------------------------------------------------------------------------
(* id.rs *)

IdString(s) == [variant |-> "String", s |-> s]
IdNumber(n, m) == [variant |-> "Number", n |-> n, mag |-> m]
IdFractional(fin, h) == [variant |-> "Fractional", fin |-> fin, h |-> h]
IdNull == [variant |-> "Null"]

\* #[serde(untagged)]: the variants are tried in declaration order on the
\* buffered value: String, Number(i64), Fractional(f32), Null.
IdDeserialize(v) ==
    CASE v.kind = "String" -> Ok(IdString(v.s))
      [] v.kind = "Number" /\ ~v.frac /\ v.mag \in {"i32", "i64"} ->
            Ok(IdNumber(v.n, v.mag))
      [] v.kind = "Number" /\ ~v.frac /\ v.mag = "u64" ->
            Ok(IdFractional(TRUE, 2 * v.n))
      [] v.kind = "Number" /\ v.frac -> Ok(IdFractional(TRUE, v.n))
      [] v.kind = "Null" -> Ok(IdNull)
      [] OTHER -> Err

\* serialize_f32 writes a non-finite float as null.
IdSerialize(id) ==
    CASE id.variant = "String" -> JStr(id.s)
      [] id.variant = "Number" -> JBig(id.n, id.mag)
      [] id.variant = "Fractional" ->
            IF id.fin THEN JFrac(id.h) ELSE JNull
      [] id.variant = "Null" -> JNull

\* The native values an Id is extracted to.
I64(n, m) == [n |-> n, mag |-> m]
F32(fin, h) == [fin |-> fin, h |-> h]
Unit == <<>>

\* Error::InvalidType(message)
InvalidType(msg) == [ok |-> FALSE, error |-> "InvalidType", msg |-> msg]

\* TryFrom<Id> for String
StringTryFromId(value) ==
    CASE value.variant = "String" -> Ok(value.s)
      [] value.variant = "Number" ->
            InvalidType("cannot convert Id type Number to String")
      [] value.variant = "Fractional" ->
            InvalidType("cannot convert Id type Fractional to String")
      [] value.variant = "Null" ->
            InvalidType("cannot convert Id type Null to String")

\* TryFrom<Id> for i64
I64TryFromId(value) ==
    CASE value.variant = "String" ->
            InvalidType("cannot convert Id type String to Number")
      [] value.variant = "Number" -> Ok(I64(value.n, value.mag))
      [] value.variant = "Fractional" ->
            InvalidType("cannot convert Id type Fractional to Number")
      [] value.variant = "Null" ->
            InvalidType("cannot convert Id type Null to Number")

\* As TryFrom<Id> for f32, but an integer id is promoted to a float.
F32TryFromIdPromoting(value) ==
    CASE value.variant = "String" ->
            InvalidType("cannot convert Id type String to Fractional")
      [] value.variant = "Number" -> Ok(F32(TRUE, 2 * value.n))
      [] value.variant = "Fractional" -> Ok(F32(value.fin, value.h))
      [] value.variant = "Null" ->
            InvalidType("cannot convert Id type Null to Fractional")

\* TryFrom<Id> for f32
F32TryFromId(value) ==
    CASE value.variant = "String" ->
            InvalidType("cannot convert Id type String to Fractional")
      [] value.variant = "Number" ->
            InvalidType("cannot convert Id type Number to Fractional")
      [] value.variant = "Fractional" -> Ok(F32(value.fin, value.h))
      [] value.variant = "Null" ->
            InvalidType("cannot convert Id type Null to Fractional")

\* TryFrom<Id> for ()
UnitTryFromId(value) ==
    CASE value.variant = "String" ->
            InvalidType("cannot convert Id type String to ()")
      [] value.variant = "Number" ->
            InvalidType("cannot convert Id type Number to ()")
      [] value.variant = "Fractional" ->
            InvalidType("cannot convert Id type Fractional to ()")
      [] value.variant = "Null" -> Ok(Unit)

---------------------------------------------------------------------------
(* params.rs *)

Params(v) == v

ParamsDeserialize(v) ==
    IF v.kind \in {"Object", "Array"} THEN Ok(Params(v)) ELSE Err

\* Option<Params>: serde's Option visitor takes null as None before the
\* inner type is consulted.
OptionParamsDeserialize(v) ==
    IF v.kind = "Null" THEN Ok(None)
    ELSE IF ParamsDeserialize(v).ok THEN Ok(Some(ParamsDeserialize(v).v))
    ELSE Err

\* Option<Params> serialized by the derive: None is written as null.
OptionSerialize(o) == IF o.some THEN o.v ELSE JNull

\* Option<serde_json::Value>
OptionValueDeserialize(v) == IF v.kind = "Null" THEN None ELSE Some(v)

---------------------------------------------------------------------------
(* request.rs: struct Request and its derived codecs *)

Request(method, params, id) ==
    [type |-> "Request", jsonrpc |-> "2.0", method |-> method,
     params |-> params, id |-> id]

\* derive(Serialize): every field is written, in declaration order.
RequestSerialize(r) ==
    << Entry("jsonrpc", JStr(r.jsonrpc)),
       Entry("method", JStr(r.method)),
       Entry("params", OptionSerialize(r.params)),
       Entry("id", IdSerialize(r.id)) >>

\* derive(Deserialize): a known key given twice is an error, an unknown key
\* is skipped, a missing key is an error unless the field is an Option.
RequestDeserialize(doc) ==
    LET dup == \E k \in {"jsonrpc", "method", "params", "id"} : Count(doc, k) > 1
        ver == IF Has(doc, "jsonrpc")
               THEN version_deserialize(Get(doc, "jsonrpc")) ELSE Err
        met == IF Has(doc, "method") /\ Get(doc, "method").kind = "String"
               THEN Ok(Get(doc, "method").s) ELSE Err
        par == IF Has(doc, "params")
               THEN OptionParamsDeserialize(Get(doc, "params")) ELSE Ok(None)
        id  == IF Has(doc, "id") THEN IdDeserialize(Get(doc, "id")) ELSE Err
    IN  IF ~dup /\ ver.ok /\ met.ok /\ par.ok /\ id.ok
        THEN Ok([type |-> "Request", jsonrpc |-> ver.v, method |-> met.v,
                 params |-> par.v, id |-> id.v])
        ELSE Err

---------------------------------------------------------------------------
(* notification.rs: struct Notification and its derived codecs *)

Notification(method, params) ==
    [type |-> "Notification", jsonrpc |-> "2.0", method |-> method,
     params |-> params]

NotificationSerialize(n) ==
    << Entry("jsonrpc", JStr(n.jsonrpc)),
       Entry("method", JStr(n.method)),
       Entry("params", OptionSerialize(n.params)) >>

\* As NotificationDeserialize, but an empty method is refused.
NotificationDeserializeNonEmpty(doc) ==
    LET dup == \E k \in {"jsonrpc", "method", "params"} : Count(doc, k) > 1
        ver == IF Has(doc, "jsonrpc")
               THEN version_deserialize(Get(doc, "jsonrpc")) ELSE Err
        met == IF /\ Has(doc, "method") /\ Get(doc, "method").kind = "String"
                  /\ Get(doc, "method").s # ""
               THEN Ok(Get(doc, "method").s) ELSE Err
        par == IF Has(doc, "params")
               THEN OptionParamsDeserialize(Get(doc, "params")) ELSE Ok(None)
    IN  IF ~dup /\ ver.ok /\ met.ok /\ par.ok
        THEN Ok([type |-> "Notification", jsonrpc |-> ver.v, method |-> met.v,
                 params |-> par.v])
        ELSE Err

\* The struct is not deny_unknown_fields: an `id` key is an unknown key.
NotificationDeserialize(doc) ==
    LET dup == \E k \in {"jsonrpc", "method", "params"} : Count(doc, k) > 1
        ver == IF Has(doc, "jsonrpc")
               THEN version_deserialize(Get(doc, "jsonrpc")) ELSE Err
        met == IF Has(doc, "method") /\ Get(doc, "method").kind = "String"
               THEN Ok(Get(doc, "method").s) ELSE Err
        par == IF Has(doc, "params")
               THEN OptionParamsDeserialize(Get(doc, "params")) ELSE Ok(None)
    IN  IF ~dup /\ ver.ok /\ met.ok /\ par.ok
        THEN Ok([type |-> "Notification", jsonrpc |-> ver.v, method |-> met.v,
                 params |-> par.v])
        ELSE Err

---------------------------------------------------------------------------
(* response.rs: enum Status, struct Response and their derived codecs *)

Success(v) == [tag |-> "Success", result |-> v]
Error(code, message, data) ==
    [tag |-> "Error", code |-> code, message |-> message, data |-> data]

Response(id, status) ==
    [type |-> "Response", jsonrpc |-> "2.0", id |-> id, status |-> status]

\* An externally tagged enum written into the flattened map: one entry,
\* keyed by the variant's name.  The struct variant writes each of its
\* fields, a None as null.
StatusSerialize(st) ==
    IF st.tag = "Success"
    THEN << Entry("result", st.result) >>
    ELSE << Entry("error",
                  JObj(<< Entry("code", JInt(st.code)),
                          Entry("message", JStr(st.message)),
                          Entry("data", OptionSerialize(st.data)) >>)) >>

ResponseSerialize(r) ==
    << Entry("jsonrpc", JStr(r.jsonrpc)), Entry("id", IdSerialize(r.id)) >>
        \o StatusSerialize(r.status)

IsI32(v) == v.kind = "Number" /\ ~v.frac /\ v.mag = "i32"

\* The struct variant Error read from the buffered value of the `error`
\* key: a map by field name, or a sequence of exactly its three fields.
ErrorDeserialize(v) ==
    CASE v.kind = "Object" ->
            LET o == v.ents
                dup == \E k \in {"code", "message", "data"} : Count(o, k) > 1
            IN  IF /\ ~dup
                   /\ Has(o, "code") /\ IsI32(Get(o, "code"))
                   /\ Has(o, "message") /\ Get(o, "message").kind = "String"
                THEN Ok(Error(Get(o, "code").n, Get(o, "message").s,
                              IF Has(o, "data")
                              THEN OptionValueDeserialize(Get(o, "data"))
                              ELSE None))
                ELSE Err
      [] v.kind = "Array" ->
            IF /\ Len(v.items) = 3
               /\ IsI32(v.items[1])
               /\ v.items[2].kind = "String"
            THEN Ok(Error(v.items[1].n, v.items[2].s,
                          OptionValueDeserialize(v.items[3])))
            ELSE Err
      [] OTHER -> Err

\* As StatusDeserialize, but a map naming no variant yields Success(null).
StatusDeserializeDefault(rest) ==
    LET hits == {i \in 1..Len(rest) : rest[i].k \in {"result", "error"}}
    IN  IF hits = {} THEN Ok(Success(JNull))
        ELSE LET i == CHOOSE i \in hits : \A j \in hits : i <= j
             IN  IF rest[i].k = "result"
                 THEN Ok(Success(rest[i].v))
                 ELSE ErrorDeserialize(rest[i].v)

\* FlatMapDeserializer::deserialize_enum: the first collected entry whose
\* key names a variant selects it; later entries are never looked at.
StatusDeserialize(rest) ==
    LET hits == {i \in 1..Len(rest) : rest[i].k \in {"result", "error"}}
    IN  IF hits = {} THEN Err
        ELSE LET i == CHOOSE i \in hits : \A j \in hits : i <= j
             IN  IF rest[i].k = "result"
                 THEN Ok(Success(rest[i].v))
                 ELSE ErrorDeserialize(rest[i].v)

\* The keys the struct does not name, in document order.
Collect(doc) == SelectSeq(doc, LAMBDA e : e.k \notin {"jsonrpc", "id"})

ResponseDeserialize(doc) ==
    LET dup == \E k \in {"jsonrpc", "id"} : Count(doc, k) > 1
        ver == IF Has(doc, "jsonrpc")
               THEN version_deserialize(Get(doc, "jsonrpc")) ELSE Err
        id  == IF Has(doc, "id") THEN IdDeserialize(Get(doc, "id")) ELSE Err
        st  == StatusDeserialize(Collect(doc))
    IN  IF ~dup /\ ver.ok /\ id.ok /\ st.ok
        THEN Ok([type |-> "Response", jsonrpc |-> ver.v, id |-> id.v,
                 status |-> st.v])
        ELSE Err

---------------------------------------------------------------------------
(* Inputs the operations are driven with *)

SampleMethods == {"m", ""}
SampleMessages == {"custom"}
SampleCodes == {-32700, -32100, -32099, -32050, -32000, -31999, -23}

\* Into<Id> for &str, i64, f32 and (); an f32 may be integral (2.0, h = 4)
\* or infinite (fin = FALSE).
SampleIds ==
    {IdString("s"), IdNull, IdFractional(TRUE, 3), IdFractional(TRUE, 4),
     IdFractional(FALSE, 0)}
        \cup {IdNumber(n, "i32") : n \in 0..MaxIdNum}

\* A text handed to serde_json::from_str: it parses to a value, or it does
\* not parse (the empty text included).
Parsed(v) == [parses |-> TRUE, v |-> v]
Unparsable == [parses |-> FALSE]
\* The empty text: serde_json::from_str reports EOF while parsing a value.
EmptyText == [parses |-> FALSE, empty |-> TRUE]
SampleTexts == {Parsed(v) : v \in SampleValues} \cup {Unparsable, EmptyText}

\* A value handed to a setter generic over serde::Serialize: it serializes
\* to a JSON value, or its Serialize impl fails.
Serializable(v) == [ser |-> TRUE, v |-> v]
Unserializable == [ser |-> FALSE]
SampleSerializable == {Serializable(v) : v \in SampleValues} \cup {Unserializable}

\* Raw strings handed to result_str and data_str.
SampleStrs == {"x", "[1]"}

Absent == [kind |-> "absent"]
Opt(k, c) == IF c = Absent THEN <<>> ELSE << Entry(k, c) >>

VersionChoices == {Absent, JStr("2.0"), JStr("2.1"), JFrac(4)}
MethodChoices == {Absent, JStr("m"), JStr(""), JInt(1)}
ParamsChoices == {Absent} \cup SampleValues
IdChoices ==
    {Absent, JInt(1), JBig(1, "u64"), JStr("s"), JNull, JFrac(3), JBool(TRUE),
     JObj(<<>>), JArr(<<>>)}

\* Documents handed to the Request and Notification decoders.
RequestTexts ==
    {Opt("jsonrpc", j) \o Opt("method", m) \o Opt("params", p) \o Opt("id", i) :
        j \in VersionChoices, m \in MethodChoices,
        p \in ParamsChoices, i \in IdChoices}

ErrorChoices ==
    {JObj(Opt("code", c) \o Opt("message", m) \o Opt("data", d)) :
        c \in {Absent, JInt(-32602), JBig(1, "i64"), JStr("x")},
        m \in {Absent, JStr("Invalid params"), JInt(1)},
        d \in {Absent, JNull, JInt(1)}}
        \cup {Absent, JNull, JInt(1)}
ResultChoices == {Absent, JNull, JInt(19), JObj(<<>>)}
ResponseIdChoices ==
    {Absent, JInt(1), JBig(1, "u64"), JNull, JBool(TRUE), JArr(<<>>)}

\* Documents handed to the Response decoder: `result` before `error` and
\* `error` before `result`.
ResponseTexts ==
    {Opt("jsonrpc", j) \o Opt("id", i) \o Opt("result", r) \o Opt("error", e) :
        j \in VersionChoices, i \in ResponseIdChoices,
        r \in ResultChoices, e \in ErrorChoices}
    \cup
    {Opt("jsonrpc", j) \o Opt("error", e) \o Opt("result", r) \o Opt("id", i) :
        j \in VersionChoices, i \in ResponseIdChoices,
        r \in ResultChoices, e \in ErrorChoices}

---------------------------------------------------------------------------
(* State *)

NoBuilder == [kind |-> "none"]
\* The last operation; server_error also records the code it was given.
Op(name) == [op |-> name]
OpCode(name, c) == [op |-> name, code |-> c]
OpArg(name, a) == [op |-> name, arg |-> a]
Produced(e, by) == [some |-> TRUE, v |-> e, by |-> by]

Init ==
    /\ builder = NoBuilder
    /\ env = None
    /\ text = None
    /\ src = None
    /\ outcome = "ok"
    /\ last = Op("start")
    /\ conv = None

\* A panic unwinds the thread: nothing runs after it.
Running == outcome # "panic"
Idle == builder = NoBuilder /\ env = None /\ text = None /\ conv = None

\* A new chain starts from nothing.
Start(b, op) ==
    /\ Running
    /\ builder' = b
    /\ env' = None /\ text' = None /\ src' = None
    /\ outcome' = "ok"
    /\ last' = op
    /\ conv' = None

\* A setter consumes the builder and returns the next one.
Step(b, op) ==
    /\ builder' = b
    /\ outcome' = "ok"
    /\ last' = op
    /\ conv' = None
    /\ UNCHANGED <<env, text, src>>

\* A setter that fails returns the error; the builder it consumed is gone.
Fail(op) ==
    /\ builder' = NoBuilder
    /\ outcome' = "err"
    /\ last' = op
    /\ conv' = None
    /\ UNCHANGED <<env, text, src>>

Panic(op) ==
    /\ builder' = NoBuilder
    /\ outcome' = "panic"
    /\ last' = op
    /\ conv' = None
    /\ UNCHANGED <<env, text, src>>

Built(e, op) ==
    /\ builder' = NoBuilder
    /\ env' = Produced(e, "build")
    /\ outcome' = "ok"
    /\ last' = op
    /\ conv' = None
    /\ UNCHANGED <<text, src>>

\* As TryFrom<&str> for Params, but any text that parses is kept.
ParamsTryFromStrUnchecked(t) == IF t.parses THEN Ok(Params(t.v)) ELSE Err

\* params.rs: TryFrom<&str> for Params
ParamsTryFromStr(t) == IF t.parses THEN ParamsDeserialize(t.v) ELSE Err

\* serde_json::to_value
ToValue(p) == IF p.ser THEN Ok(p.v) ELSE Err

\* Params::try_from(serde_json::Value), which the builders call: the value
\* is kept when it is an object or an array and refused otherwise.
ParamsTryFromValue(v) ==
    IF v.kind \in {"Object", "Array"} THEN Ok(Params(v)) ELSE Err

---------------------------------------------------------------------------
(* request/builder.rs *)

RequestBuilderNew ==
    Start([kind |-> "Request", method |-> None, params |-> None, id |-> None],
          Op("Request::builder"))

RequestParams ==
    /\ Running /\ builder.kind = "Request"
    /\ \E p \in SampleSerializable :
          LET value == ToValue(p)
              params == IF value.ok THEN ParamsTryFromValue(value.v) ELSE Err
          IN  IF params.ok
              THEN Step([builder EXCEPT !.params = Some(params.v)],
                        OpArg("params", p))
              ELSE Fail(OpArg("params", p))

\* As params_str, but a refused text leaves the builder usable.
RequestParamsStrKeeps ==
    /\ Running /\ builder.kind = "Request"
    /\ \E t \in SampleTexts :
          LET p == ParamsTryFromStr(t)
          IN  IF p.ok
              THEN Step([builder EXCEPT !.params = Some(p.v)],
                        OpArg("params_str", t))
              ELSE /\ outcome' = "err"
                   /\ last' = OpArg("params_str", t)
                   /\ UNCHANGED <<builder, env, text, src, conv>>

RequestParamsStr ==
    /\ Running /\ builder.kind = "Request"
    /\ \E t \in SampleTexts :
          LET p == ParamsTryFromStr(t)
          IN  IF p.ok
              THEN Step([builder EXCEPT !.params = Some(p.v)],
                        OpArg("params_str", t))
              ELSE Fail(OpArg("params_str", t))

RequestMethod ==
    /\ Running /\ builder.kind = "Request" /\ ~builder.method.some
    /\ \E m \in SampleMethods :
          Step([builder EXCEPT !.method = Some(m)], OpArg("method", m))

RequestId ==
    /\ Running /\ builder.kind = "Request" /\ ~builder.id.some
    /\ \E i \in SampleIds : Step([builder EXCEPT !.id = Some(i)], OpArg("id", i))

RequestBuild ==
    /\ Running /\ builder.kind = "Request"
    /\ builder.method.some /\ builder.id.some
    /\ Built(Request(builder.method.v, builder.params, builder.id.v),
             Op("build"))

---------------------------------------------------------------------------
(* notification/builder.rs *)

NotificationBuilderNew ==
    Start([kind |-> "Notification", method |-> None, params |-> None],
          Op("Notification::builder"))

NotificationParams ==
    /\ Running /\ builder.kind = "Notification"
    /\ \E p \in SampleSerializable :
          LET value == ToValue(p)
              params == IF value.ok THEN ParamsTryFromValue(value.v) ELSE Err
          IN  IF params.ok
              THEN Step([builder EXCEPT !.params = Some(params.v)],
                        OpArg("params", p))
              ELSE Fail(OpArg("params", p))

NotificationParamsStr ==
    /\ Running /\ builder.kind = "Notification"
    /\ \E t \in SampleTexts :
          LET p == ParamsTryFromStr(t)
          IN  IF p.ok
              THEN Step([builder EXCEPT !.params = Some(p.v)],
                        OpArg("params_str", t))
              ELSE Fail(OpArg("params_str", t))

NotificationMethod ==
    /\ Running /\ builder.kind = "Notification" /\ ~builder.method.some
    /\ \E m \in SampleMethods :
          Step([builder EXCEPT !.method = Some(m)], OpArg("method", m))

NotificationBuild ==
    /\ Running /\ builder.kind = "Notification" /\ builder.method.some
    /\ Built(Notification(builder.method.v, builder.params), Op("build"))

---------------------------------------------------------------------------
(* response/builder.rs *)

ServerErrorLow == -32099
ServerErrorHigh == -32000
InBand(c) == ServerErrorLow <= c /\ c <= ServerErrorHigh

\* As ServerErrorCode::new, but it is the band that panics.
ServerErrorCodeNewInverted(val) ==
    IF InBand(val) THEN Err ELSE Ok(val)

\* ServerErrorCode::new: Err stands for the panic.
ServerErrorCodeNew(val) ==
    IF val <= ServerErrorHigh \/ val >= ServerErrorLow THEN Err ELSE Ok(val)

ResponseBuilderNew ==
    Start([kind |-> "Response", id |-> None], Op("Response::builder"))

ResponseId ==
    /\ Running /\ builder.kind = "Response" /\ ~builder.id.some
    /\ \E i \in SampleIds : Step([builder EXCEPT !.id = Some(i)], OpArg("id", i))

ResponseSuccess ==
    /\ Running /\ builder.kind = "Response"
    /\ Step([kind |-> "Success", id |-> builder.id, result |-> None],
            Op("success"))

ResponseError ==
    /\ Running /\ builder.kind = "Response"
    /\ Step([kind |-> "Error", id |-> builder.id, code |-> None,
             message |-> None, data |-> None], Op("error"))

SuccessId ==
    /\ Running /\ builder.kind = "Success" /\ ~builder.id.some
    /\ \E i \in SampleIds : Step([builder EXCEPT !.id = Some(i)], OpArg("id", i))

SuccessResult ==
    /\ Running /\ builder.kind = "Success"
    /\ \E v \in SampleValues :
          Step([builder EXCEPT !.result = Some(v)], OpArg("result", v))

SuccessResultSerialize ==
    /\ Running /\ builder.kind = "Success"
    /\ \E p \in SampleSerializable :
          LET value == ToValue(p)
          IN  IF value.ok
              THEN Step([builder EXCEPT !.result = Some(value.v)],
                        OpArg("result_serialize", p))
              ELSE Fail(OpArg("result_serialize", p))

\* result_str hands the &str itself to serde_json::to_value: the result is
\* the JSON string holding that text; the text is not parsed.
SuccessResultStr ==
    /\ Running /\ builder.kind = "Success"
    /\ \E p \in SampleStrs :
          Step([builder EXCEPT !.result = Some(JStr(p))],
               OpArg("result_str", p))

SuccessBuild ==
    /\ Running /\ builder.kind = "Success" /\ builder.id.some
    /\ Built(Response(builder.id.v,
                      Success(IF builder.result.some
                              THEN builder.result.v ELSE JNull)),
             Op("build"))

ErrorId ==
    /\ Running /\ builder.kind = "Error" /\ ~builder.id.some
    /\ \E i \in SampleIds : Step([builder EXCEPT !.id = Some(i)], OpArg("id", i))

\* As ErrorCode, but callable again once the code is set.
ErrorCodeAgain ==
    /\ Running /\ builder.kind = "Error"
    /\ \E c \in SampleCodes :
          Step([builder EXCEPT !.code = Some(c)], OpArg("code", c))

ErrorCode ==
    /\ Running /\ builder.kind = "Error" /\ ~builder.code.some
    /\ \E c \in SampleCodes :
          Step([builder EXCEPT !.code = Some(c)], OpArg("code", c))

\* As message, but the data set so far is dropped.
ErrorMessageDropsData ==
    /\ Running /\ builder.kind = "Error" /\ ~builder.message.some
    /\ \E m \in SampleMessages :
          Step([builder EXCEPT !.message = Some(m), !.data = None],
               OpArg("message", m))

ErrorMessage ==
    /\ Running /\ builder.kind = "Error" /\ ~builder.message.some
    /\ \E m \in SampleMessages :
          Step([builder EXCEPT !.message = Some(m)], OpArg("message", m))

\* As a preset, but only the code is set.
PresetCodeOnly(c, m, op) ==
    /\ Running /\ builder.kind = "Error"
    /\ ~builder.code.some /\ ~builder.message.some
    /\ Step([builder EXCEPT !.code = Some(c)], Op(op))

Preset(c, m, op) ==
    /\ Running /\ builder.kind = "Error"
    /\ ~builder.code.some /\ ~builder.message.some
    /\ Step([builder EXCEPT !.code = Some(c), !.message = Some(m)], Op(op))

ErrorParseError == Preset(-32700, "Parse error", "parse_error")
ErrorInvalidRequest == Preset(-32600, "Invalid Request", "invalid_request")
ErrorMethodNotFound == Preset(-32601, "Method not found", "method_not_found")
ErrorInvalidParams == Preset(-32602, "Invalid params", "invalid_params")
ErrorInternalError == Preset(-32603, "Internal error", "internal_error")

ErrorServerError ==
    /\ Running /\ builder.kind = "Error"
    /\ ~builder.code.some /\ ~builder.message.some
    /\ \E c \in SampleCodes :
          LET sc == ServerErrorCodeNew(c)
          IN  IF sc.ok
              THEN Step([builder EXCEPT !.code = Some(sc.v),
                                        !.message = Some("Server error")],
                        OpCode("server_error", c))
              ELSE Panic(OpCode("server_error", c))

\* As data, but the message set so far is forgotten.
ErrorDataResets ==
    /\ Running /\ builder.kind = "Error"
    /\ \E v \in SampleValues :
          Step([builder EXCEPT !.data = Some(v), !.message = None],
               OpArg("data", v))

ErrorData ==
    /\ Running /\ builder.kind = "Error"
    /\ \E v \in SampleValues :
          Step([builder EXCEPT !.data = Some(v)], OpArg("data", v))

ErrorDataSerialize ==
    /\ Running /\ builder.kind = "Error"
    /\ \E p \in SampleSerializable :
          LET value == ToValue(p)
          IN  IF value.ok
              THEN Step([builder EXCEPT !.data = Some(value.v)],
                        OpArg("data_serialize", p))
              ELSE Fail(OpArg("data_serialize", p))

\* data_str, like result_str, stores the text as a JSON string.
ErrorDataStr ==
    /\ Running /\ builder.kind = "Error"
    /\ \E p \in SampleStrs :
          Step([builder EXCEPT !.data = Some(JStr(p))], OpArg("data_str", p))

ErrorBuild ==
    /\ Running /\ builder.kind = "Error"
    /\ builder.id.some /\ builder.code.some /\ builder.message.some
    /\ Built(Response(builder.id.v,
                      Error(builder.code.v, builder.message.v, builder.data)),
             Op("build"))

---------------------------------------------------------------------------
(* TryFrom<Envelope> for String and TryFrom<&str> for Envelope *)

Encoded(doc, op) ==
    /\ text' = Some(doc)
    /\ src' = env
    /\ outcome' = "ok"
    /\ last' = Op(op)
    /\ conv' = None
    /\ UNCHANGED <<builder, env>>

\* The text decoded: the one at hand, or, before anything else has
\* happened, any of the sample documents.
DecodeInputs(S) ==
    IF text.some THEN {text.v} ELSE IF Idle THEN S ELSE {}

Decoded(doc, r, op) ==
    /\ text' = Some(doc)
    /\ env' = IF r.ok THEN Produced(r.v, "decode") ELSE None
    /\ outcome' = IF r.ok THEN "ok" ELSE "err"
    /\ last' = Op(op)
    /\ conv' = None
    /\ UNCHANGED <<builder, src>>

RequestToString ==
    /\ Running /\ env.some /\ env.v.type = "Request"
    /\ Encoded(RequestSerialize(env.v), "Request::to_string")

NotificationToString ==
    /\ Running /\ env.some /\ env.v.type = "Notification"
    /\ Encoded(NotificationSerialize(env.v), "Notification::to_string")

ResponseToString ==
    /\ Running /\ env.some /\ env.v.type = "Response"
    /\ Encoded(ResponseSerialize(env.v), "Response::to_string")

RequestTryFrom ==
    /\ Running
    /\ \E doc \in DecodeInputs(RequestTexts) :
          Decoded(doc, RequestDeserialize(doc), "Request::try_from")

NotificationTryFrom ==
    /\ Running
    /\ \E doc \in DecodeInputs(RequestTexts) :
          Decoded(doc, NotificationDeserialize(doc), "Notification::try_from")

ResponseTryFrom ==
    /\ Running
    /\ \E doc \in DecodeInputs(ResponseTexts) :
          Decoded(doc, ResponseDeserialize(doc), "Response::try_from")

---------------------------------------------------------------------------
(* Stand-alone conversions: id.rs TryFrom<Id> for the native types *)

Converted(op, input, r) ==
    /\ conv' = [some |-> TRUE, op |-> op, input |-> input, result |-> r]
    /\ outcome' = IF r.ok THEN "ok" ELSE "err"
    /\ last' = Op(op)
    /\ UNCHANGED <<builder, env, text, src>>

\* The Id extracted from: one made from a native value before anything
\* else has happened, or the id of the envelope at hand.
IdInputs ==
    IF Idle THEN SampleIds
    ELSE IF env.some /\ env.v.type \in {"Request", "Response"}
         THEN {env.v.id} ELSE {}

\* params.rs: Params::try_from(text), called on its own.
ParamsTryFrom ==
    /\ Running /\ Idle
    /\ \E t \in SampleTexts :
          Converted("Params::try_from", t, ParamsTryFromStr(t))

ExtractString ==
    /\ Running
    /\ \E id \in IdInputs :
          Converted("String::try_from", id, StringTryFromId(id))

ExtractI64 ==
    /\ Running
    /\ \E id \in IdInputs : Converted("i64::try_from", id, I64TryFromId(id))

ExtractF32 ==
    /\ Running
    /\ \E id \in IdInputs : Converted("f32::try_from", id, F32TryFromId(id))

ExtractUnit ==
    /\ Running
    /\ \E id \in IdInputs : Converted("()::try_from", id, UnitTryFromId(id))

---------------------------------------------------------------------------
(* Mutation of an envelope at hand through its public fields *)

Mutated(e, op) ==
    /\ env' = Produced(e, "mutate")
    /\ outcome' = "ok"
    /\ last' = op
    /\ conv' = None
    /\ UNCHANGED <<builder, text, src>>

\* params.rs: DerefMut for Params gives &mut serde_json::Value, through
\* which the inner value is overwritten: **params = value.
ParamsDerefMut ==
    /\ Running /\ env.some
    /\ env.v.type \in {"Request", "Notification"} /\ env.v.params.some
    /\ \E v \in SampleValues :
          Mutated([env.v EXCEPT !.params = Some(v)], OpArg("deref_mut", v))

\* The tuple field of Params and the params field of the envelope are
\* public: envelope.params = Some(Params(value)).
ParamsAssign ==
    /\ Running /\ env.some
    /\ env.v.type \in {"Request", "Notification"}
    /\ \E v \in SampleValues :
          Mutated([env.v EXCEPT !.params = Some(Params(v))],
                  OpArg("params_assign", v))

---------------------------------------------------------------------------

Next ==
    \/ RequestBuilderNew \/ RequestParams \/ RequestParamsStr
    \/ RequestMethod \/ RequestId \/ RequestBuild
    \/ NotificationBuilderNew \/ NotificationParams \/ NotificationParamsStr
    \/ NotificationMethod \/ NotificationBuild
    \/ ResponseBuilderNew \/ ResponseId \/ ResponseSuccess \/ ResponseError
    \/ SuccessId \/ SuccessResult \/ SuccessResultSerialize
    \/ SuccessResultStr \/ SuccessBuild
    \/ ErrorId \/ ErrorCode \/ ErrorMessage
    \/ ErrorParseError \/ ErrorInvalidRequest \/ ErrorMethodNotFound
    \/ ErrorInvalidParams \/ ErrorInternalError \/ ErrorServerError
    \/ ErrorData \/ ErrorDataSerialize \/ ErrorDataStr \/ ErrorBuild
    \/ RequestToString \/ NotificationToString \/ ResponseToString
    \/ RequestTryFrom \/ NotificationTryFrom \/ ResponseTryFrom
    \/ ParamsTryFrom
    \/ ParamsDerefMut \/ ParamsAssign
    \/ ExtractString \/ ExtractI64 \/ ExtractF32 \/ ExtractUnit

Spec == Init /\ [][Next]_vars

---------------------------------------------------------------------------
(* Properties *)

DecodeOps == {"Request::try_from", "Notification::try_from", "Response::try_from"}

\* C1: on an error builder with code and message unset, server_error(c)
\* with c in [-32099, -32000] succeeds and leaves a builder whose code is c
\* and whose message is "Server error".
C1_ServerErrorInBandSucceeds ==
    (last.op = "server_error" /\ InBand(last.code))
        => /\ outcome = "ok"
           /\ builder.kind = "Error"
           /\ builder.code = Some(last.code)
           /\ builder.message = Some("Server error")

\* C2: server_error(c) with c outside [-32099, -32000] panics; it returns
\* neither a builder nor an error, so nothing is built from that chain.
C2_ServerErrorOutOfBandPanics ==
    (last.op = "server_error" /\ ~InBand(last.code))
        => outcome = "panic" /\ builder = NoBuilder

C2_Witness ==
    /\ last.op = "server_error"
    /\ last.code \in {-32100, -31999}
    /\ outcome = "panic"

\* C3: decoding a Response from an object holding both a `result` key and
\* an `error` key fails, whatever their order and values.
C3_BothResultAndErrorFails ==
    (last.op = "Response::try_from"
        /\ Has(text.v, "result") /\ Has(text.v, "error"))
        => outcome = "err"

\* C4: the encoding of a Response whose status is Error with no data has an
\* `error` object with exactly the keys code and message.
C4_NoDataKeyWhenUnset ==
    (last.op = "Response::to_string"
        /\ src.v.status.tag = "Error" /\ ~src.v.status.data.some)
        => Keys(Get(text.v, "error").ents) = {"code", "message"}

\* C5: an envelope produced by a builder, encoded and decoded again as the
\* same kind of envelope, decodes successfully to an equal envelope.
C5_RoundTrip ==
    (last.op \in DecodeOps /\ src.some /\ src.by = "build"
        /\ last.op = src.v.type \o "::try_from")
        => outcome = "ok" /\ env.some /\ env.v = src.v

\* C6: decoding a Notification from an object that holds an `id` key fails.
C6_NotificationWithIdFails ==
    (last.op = "Notification::try_from" /\ Has(text.v, "id"))
        => outcome = "err"

\* C7: decoding a Request or Notification whose `params` key holds anything
\* but an object or array fails; when it holds an object or array and the
\* decode succeeds the envelope holds exactly that value.
C7_ParamsKindChecked ==
    (last.op \in {"Request::try_from", "Notification::try_from"}
        /\ Has(text.v, "params"))
        => IF Get(text.v, "params").kind \in {"Object", "Array"}
           THEN outcome = "ok" => env.v.params = Some(Get(text.v, "params"))
           ELSE outcome = "err"

\* C8: the encoding of a Request or Notification without params has no
\* `params` key, and every encoded `params` value is an object or array.
C8_NoParamsKeyWhenAbsent ==
    (last.op \in {"Request::to_string", "Notification::to_string"})
        => /\ ~src.v.params.some => ~Has(text.v, "params")
           /\ Has(text.v, "params")
                 => Get(text.v, "params").kind \in {"Object", "Array"}

ValidHead(doc) ==
    /\ Count(doc, "jsonrpc") = 1 /\ Get(doc, "jsonrpc") = JStr("2.0")
    /\ Count(doc, "id") = 1
    /\ Get(doc, "id").kind \in {"String", "Number", "Null"}

\* C9: decoding a Response with valid jsonrpc and id fails when neither
\* `result` nor `error` is present; with only `result` it gives Success
\* with that value; with only `error` holding an i32 code and a string
\* message it gives Error with those values, data absent when there is no
\* `data` key and the given value when a non-null one is given.
C9_ResponseStatusDecode ==
    (last.op = "Response::try_from" /\ ValidHead(text.v))
        => LET doc == text.v
           IN  /\ (~Has(doc, "result") /\ ~Has(doc, "error")) => outcome = "err"
               /\ (Has(doc, "result") /\ ~Has(doc, "error"))
                     => /\ outcome = "ok"
                        /\ env.v.status.tag = "Success"
                        /\ env.v.status.result = Get(doc, "result")
               /\ (/\ Has(doc, "error") /\ ~Has(doc, "result")
                   /\ Get(doc, "error").kind = "Object"
                   /\ Has(Get(doc, "error").ents, "code")
                   /\ IsI32(Get(Get(doc, "error").ents, "code"))
                   /\ Has(Get(doc, "error").ents, "message")
                   /\ Get(Get(doc, "error").ents, "message").kind = "String")
                     => LET o == Get(doc, "error").ents
                        IN  /\ outcome = "ok"
                            /\ env.v.status.tag = "Error"
                            /\ env.v.status.code = Get(o, "code").n
                            /\ env.v.status.message = Get(o, "message").s
                            /\ ~Has(o, "data") => ~env.v.status.data.some
                            /\ (Has(o, "data") /\ Get(o, "data") # JNull)
                                  => env.v.status.data = Some(Get(o, "data"))

C9_Witness ==
    /\ last.op = "Response::try_from" /\ outcome = "ok"
    /\ ValidHead(text.v)
    /\ Has(text.v, "error") /\ ~Has(text.v, "result")
    /\ ~Has(Get(text.v, "error").ents, "data")
    /\ env.v.status = Error(-32602, "Invalid params", None)

\* C10: every envelope that exists has the version tag "2.0", and a decode
\* of a document whose `jsonrpc` is missing, is another string or is not a
\* string fails.
C10_VersionInvariant ==
    /\ env.some => env.v.jsonrpc = "2.0"
    /\ (last.op \in DecodeOps
          /\ (~Has(text.v, "jsonrpc") \/ Get(text.v, "jsonrpc") # JStr("2.0")))
          => outcome = "err" /\ ~env.some

C10_Witness ==
    /\ last.op = "Request::try_from" /\ outcome = "err"
    /\ text.v = << Entry("jsonrpc", JStr("2.1")), Entry("method", JStr("m")),
                   Entry("id", JInt(1)) >>

HasMethod == {"Request", "Notification"}

\* C11 as claimed: every Request and Notification that exists has a
\* non-empty method.
C11_MethodNonEmpty ==
    (env.some /\ env.v.type \in HasMethod) => env.v.method # ""

C11_DecodedMethod ==
    (last.op \in {"Request::try_from", "Notification::try_from"})
        => /\ outcome = "ok"
                 => /\ Count(text.v, "method") = 1
                    /\ Get(text.v, "method").kind = "String"
                    /\ env.v.method = Get(text.v, "method").s
           /\ (/\ last.op = "Notification::try_from"
               /\ Count(text.v, "jsonrpc") = 1
               /\ Get(text.v, "jsonrpc") = JStr("2.0")
               /\ Count(text.v, "method") = 1
               /\ Get(text.v, "method").kind = "String"
               /\ ~Has(text.v, "params"))
                 => outcome = "ok"

C11_SetMethod ==
    (last.op = "method" /\ builder.kind \in HasMethod)
        => builder.method = Some(last.arg)

C11_BuiltMethod ==
    (builder.kind \in HasMethod /\ last'.op = "build")
        => env'.some /\ env'.v.method = builder.method.v

\* C11 as amended: the method of every Request and Notification is exactly
\* the string given, the empty string included: a decode succeeds only on
\* a string method and keeps it, a Notification document with version
\* "2.0" and any string method decodes, method(m) stores m and build()
\* returns it.
C11_MethodIsTheStringGiven ==
    [](C11_DecodedMethod /\ C11_SetMethod) /\ [][C11_BuiltMethod]_vars

C11_Witness ==
    /\ last.op = "Notification::try_from" /\ outcome = "ok"
    /\ env.v.method = ""
    /\ src.some /\ src.by = "build" /\ src.v.method = ""

\* C12: in every builder each required-field setter is enabled exactly
\* while its field is unset, and build() is enabled exactly when every
\* required field is set; the error builder's build() needs id, code and
\* message.  Nothing is enabled on a builder that was consumed.
C12_BuilderProtocol ==
    /\ builder.kind = "Request"
          => /\ ENABLED RequestMethod <=> ~builder.method.some
             /\ ENABLED RequestId <=> ~builder.id.some
             /\ ENABLED RequestBuild
                   <=> (builder.method.some /\ builder.id.some)
    /\ builder.kind = "Notification"
          => /\ ENABLED NotificationMethod <=> ~builder.method.some
             /\ ENABLED NotificationBuild <=> builder.method.some
    /\ builder.kind = "Response"
          => (ENABLED ResponseId <=> ~builder.id.some)
    /\ builder.kind = "Success"
          => /\ ENABLED SuccessId <=> ~builder.id.some
             /\ ENABLED SuccessBuild <=> builder.id.some
    /\ builder.kind = "Error"
          => /\ ENABLED ErrorId <=> ~builder.id.some
             /\ ENABLED ErrorCode <=> ~builder.code.some
             /\ ENABLED ErrorMessage <=> ~builder.message.some
             /\ ENABLED ErrorBuild
                   <=> (/\ builder.id.some /\ builder.code.some
                        /\ builder.message.some)
    /\ builder.kind # "Request"
          => ~ENABLED RequestMethod /\ ~ENABLED RequestId /\ ~ENABLED RequestBuild
    /\ builder.kind # "Notification"
          => ~ENABLED NotificationMethod /\ ~ENABLED NotificationBuild
    /\ builder.kind # "Response" => ~ENABLED ResponseId
    /\ builder.kind # "Success" => ~ENABLED SuccessId /\ ~ENABLED SuccessBuild
    /\ builder.kind # "Error"
          => /\ ~ENABLED ErrorId /\ ~ENABLED ErrorCode
             /\ ~ENABLED ErrorMessage /\ ~ENABLED ErrorBuild

C12_Witness ==
    /\ builder.kind = "Error" /\ last.op = "message"
    /\ builder.id.some /\ builder.code.some /\ builder.message.some
    /\ ENABLED ErrorBuild /\ ~ENABLED ErrorCode

PresetPairs ==
    { <<"parse_error", -32700, "Parse error">>,
      <<"invalid_request", -32600, "Invalid Request">>,
      <<"method_not_found", -32601, "Method not found">>,
      <<"invalid_params", -32602, "Invalid params">>,
      <<"internal_error", -32603, "Internal error">> }

C13_PresetState ==
    /\ \A p \in PresetPairs :
          last.op = p[1]
              => /\ builder.kind = "Error"
                 /\ builder.code = Some(p[2])
                 /\ builder.message = Some(p[3])
    /\ LET unset == /\ builder.kind = "Error"
                    /\ ~builder.code.some /\ ~builder.message.some
       IN  /\ ENABLED ErrorParseError <=> unset
           /\ ENABLED ErrorInvalidRequest <=> unset
           /\ ENABLED ErrorMethodNotFound <=> unset
           /\ ENABLED ErrorInvalidParams <=> unset
           /\ ENABLED ErrorInternalError <=> unset

C13_PresetBuilt ==
    (builder.kind = "Error" /\ last'.op = "build")
        => /\ env'.some /\ env'.v.status.tag = "Error"
           /\ env'.v.status.code = builder.code.v
           /\ env'.v.status.message = builder.message.v

\* C13: each of the five presets is enabled exactly on an error builder
\* with code and message both unset and sets both in one step to its
\* reserved pair, and build() returns a Response carrying the pair the
\* builder holds.
C13_Presets == []C13_PresetState /\ [][C13_PresetBuilt]_vars

C13_Witness ==
    /\ last.op = "build" /\ env.some /\ env.v.type = "Response"
    /\ env.v.status.tag = "Error"
    /\ env.v.status.code = -32603
    /\ env.v.status.message = "Internal error"

ExtractOps == {"String::try_from", "i64::try_from", "f32::try_from", "()::try_from"}

\* The variant each target type extracts, and the native value of an id.
TargetVariant(op) ==
    CASE op = "String::try_from" -> "String"
      [] op = "i64::try_from" -> "Number"
      [] op = "f32::try_from" -> "Fractional"
      [] op = "()::try_from" -> "Null"

Stored(id) ==
    CASE id.variant = "String" -> id.s
      [] id.variant = "Number" -> [n |-> id.n, mag |-> id.mag]
      [] id.variant = "Fractional" -> [fin |-> id.fin, h |-> id.h]
      [] id.variant = "Null" -> <<>>

\* C14: extracting a native type from an Id succeeds with exactly the
\* stored value when the variant is the target's, and fails with
\* InvalidType for every other variant; an integer is not promoted to a
\* float nor a float truncated to an integer.
C14_IdExtractionStrict ==
    (conv.some /\ conv.op \in ExtractOps)
        => IF conv.input.variant = TargetVariant(conv.op)
           THEN conv.result.ok /\ conv.result.v = Stored(conv.input)
           ELSE ~conv.result.ok /\ conv.result.error = "InvalidType"

C14_Witness ==
    /\ conv.some /\ conv.op = "i64::try_from"
    /\ conv.input = IdFractional(TRUE, 4)
    /\ ~conv.result.ok /\ outcome = "err"

\* C15: decoding an id gives Id::String for a string, Id::Number for an
\* integer-valued number, Id::Fractional for a number with a fractional
\* part and Id::Null for null, and the decode of a Request or Response
\* fails when the `id` key is missing or holds an object, array or boolean.
C15_IdDecodeVariants ==
    (last.op \in {"Request::try_from", "Response::try_from"})
        => /\ (~Has(text.v, "id")
                  \/ Get(text.v, "id").kind \in {"Object", "Array", "Bool"})
                 => outcome = "err"
           /\ (outcome = "ok" /\ Has(text.v, "id"))
                 => LET v == Get(text.v, "id")
                    IN  CASE v.kind = "String" -> env.v.id = IdString(v.s)
                          [] v.kind = "Number" /\ ~v.frac ->
                                env.v.id = IdNumber(v.n, v.mag)
                          [] v.kind = "Number" /\ v.frac ->
                                env.v.id = IdFractional(TRUE, v.n)
                          [] v.kind = "Null" -> env.v.id = IdNull
                          [] OTHER -> FALSE

\* C16: constructing Params from text succeeds exactly when the text
\* parses as a JSON object or array, and then holds the parsed value; it
\* fails for a scalar, for null, for unparsable text and for empty text.
C16_ParamsFromText ==
    (conv.some /\ conv.op = "Params::try_from")
        => /\ conv.result.ok
                 <=> (conv.input.parses
                        /\ conv.input.v.kind \in {"Object", "Array"})
           /\ conv.result.ok => conv.result.v = conv.input.v
           /\ conv.input = EmptyText => ~conv.result.ok

C16_Witness ==
    /\ conv.some /\ conv.op = "Params::try_from"
    /\ conv.input = EmptyText
    /\ ~conv.result.ok /\ outcome = "err"

ParamsOps == {"params", "params_str"}

\* What a params setter was given: the object or array it must store, or
\* nothing when the value does not serialize, the text does not parse, or
\* the result is neither an object nor an array.
Supplied(l) ==
    IF l.op = "params"
    THEN IF l.arg.ser /\ l.arg.v.kind \in {"Object", "Array"}
         THEN Some(l.arg.v) ELSE None
    ELSE IF l.arg.parses /\ l.arg.v.kind \in {"Object", "Array"}
         THEN Some(l.arg.v) ELSE None

C17_SetterState ==
    (last.op \in ParamsOps)
        => IF Supplied(last).some
           THEN /\ outcome = "ok"
                /\ builder.kind \in {"Request", "Notification"}
                /\ builder.params = Supplied(last)
           ELSE /\ outcome = "err"
                /\ builder = NoBuilder /\ env = None
                /\ ~ENABLED RequestBuild /\ ~ENABLED NotificationBuild

C17_Carried ==
    (builder.kind \in {"Request", "Notification"})
        => /\ (last'.op \in {"method", "id"}) => builder'.params = builder.params
           /\ (last'.op = "build")
                 => env'.some /\ env'.v.params = builder.params

\* C17: in the Request and Notification builders params(value) and
\* params_str(text) fail, consuming the builder so that nothing can be built
\* from the chain, when the value or text is not an object or array; when
\* they succeed the builder holds exactly the supplied object or array, the
\* later setters carry it and build() returns it in the envelope.
C17_BuilderParams == []C17_SetterState /\ [][C17_Carried]_vars

C17_Witness ==
    /\ last = OpArg("params_str", Parsed(JInt(1)))
    /\ outcome = "err" /\ builder = NoBuilder /\ env = None

OptionalOps ==
    {"params", "params_str", "result", "result_serialize", "result_str",
     "data", "data_serialize", "data_str"}

\* The optional field of each builder.
OptionalField(kind) ==
    CASE kind \in {"Request", "Notification"} -> "params"
      [] kind = "Success" -> "result"
      [] kind = "Error" -> "data"

C18_Available ==
    /\ builder.kind = "Request"
          => ENABLED RequestParams /\ ENABLED RequestParamsStr
    /\ builder.kind = "Notification"
          => ENABLED NotificationParams /\ ENABLED NotificationParamsStr
    /\ builder.kind = "Success"
          => /\ ENABLED SuccessResult /\ ENABLED SuccessResultSerialize
             /\ ENABLED SuccessResultStr
    /\ builder.kind = "Error"
          => /\ ENABLED ErrorData /\ ENABLED ErrorDataSerialize
             /\ ENABLED ErrorDataStr

C18_Frame ==
    (last'.op \in OptionalOps /\ outcome' = "ok")
        => /\ builder.kind \in {"Request", "Notification", "Success", "Error"}
           /\ DOMAIN builder' = DOMAIN builder
           /\ \A f \in DOMAIN builder \ {OptionalField(builder.kind)} :
                 builder'[f] = builder[f]
           /\ builder'[OptionalField(builder.kind)].some

\* C18: the optional-field setters (params, params_str; result, its
\* serialize and str forms; data, its serialize and str forms) are enabled
\* in every state of their builder, and a successful call changes only the
\* optional field: the builder's kind and its method, id, code and message,
\* set or unset, are as before.
C18_OptionalSetters == []C18_Available /\ [][C18_Frame]_vars

C18_Witness ==
    /\ builder.kind = "Error" /\ last.op = "data"
    /\ builder.id.some /\ builder.code.some /\ builder.message.some
    /\ builder.data.some /\ ENABLED ErrorData /\ ENABLED ErrorDataStr

PresetOps == {p[1] : p \in PresetPairs}

SetterOps ==
    {"method", "id", "code", "message"} \cup OptionalOps \cup PresetOps

\* The fields a successful setter call writes and the values it writes,
\* which depend on the call's argument alone.
Written(l) ==
    CASE l.op = "method" -> [method |-> Some(l.arg)]
      [] l.op = "id" -> [id |-> Some(l.arg)]
      [] l.op = "code" -> [code |-> Some(l.arg)]
      [] l.op = "message" -> [message |-> Some(l.arg)]
      [] l.op \in {"params", "params_str"} -> [params |-> Some(l.arg.v)]
      [] l.op = "result" -> [result |-> Some(l.arg)]
      [] l.op = "result_serialize" -> [result |-> Some(l.arg.v)]
      [] l.op = "result_str" -> [result |-> Some(JStr(l.arg))]
      [] l.op = "data" -> [data |-> Some(l.arg)]
      [] l.op = "data_serialize" -> [data |-> Some(l.arg.v)]
      [] l.op = "data_str" -> [data |-> Some(JStr(l.arg))]
      [] l.op \in PresetOps ->
            LET p == CHOOSE q \in PresetPairs : q[1] = l.op
            IN  [code |-> Some(p[2]), message |-> Some(p[3])]

\* A setter writes its own field and moves every other field over.
C19_Setter ==
    (last'.op \in SetterOps /\ outcome' = "ok")
        => /\ DOMAIN Written(last') \subseteq DOMAIN builder
           /\ builder' = [f \in DOMAIN builder |->
                            IF f \in DOMAIN Written(last')
                            THEN Written(last')[f] ELSE builder[f]]

\* success() and error() move the id over, set or unset.
C19_Branch ==
    /\ last'.op = "success"
          => builder' = [kind |-> "Success", id |-> builder.id, result |-> None]
    /\ last'.op = "error"
          => builder' = [kind |-> "Error", id |-> builder.id, code |-> None,
                         message |-> None, data |-> None]

\* build() returns the fields the builder holds.
C19_Build ==
    (last'.op = "build")
        => /\ env'.some /\ env'.by = "build"
           /\ builder.kind = "Request"
                 => env'.v = Request(builder.method.v, builder.params,
                                     builder.id.v)
           /\ builder.kind = "Notification"
                 => env'.v = Notification(builder.method.v, builder.params)
           /\ builder.kind = "Success"
                 => /\ env'.v.type = "Response" /\ env'.v.id = builder.id.v
                    /\ env'.v.status.tag = "Success"
                    /\ builder.result.some
                          => env'.v.status.result = builder.result.v
           /\ builder.kind = "Error"
                 => /\ env'.v.type = "Response" /\ env'.v.id = builder.id.v
                    /\ env'.v.status =
                          Error(builder.code.v, builder.message.v, builder.data)

\* C19: the envelope build() returns does not depend on the order of the
\* setter calls.  Every setter writes the value it is given into its own
\* field and moves every other field over unchanged, success() and error()
\* move the id over, and build() returns the fields the builder holds: a
\* params or data value set before a later required setter or preset is
\* preserved, and of several calls of an optional setter the last one is
\* the one the envelope holds.
C19_OrderIndependence == [][C19_Setter /\ C19_Branch /\ C19_Build]_vars

C19_Witness ==
    /\ builder.kind = "Error" /\ last.op = "parse_error"
    /\ builder.data = Some(JObj(<<>>)) /\ builder.id.some
    /\ builder.code = Some(-32700) /\ ENABLED ErrorBuild

\* C20: in every state reachable through the public interface (decode,
\* builders, Params construction, mutation of an envelope through its
\* public fields and the mutable access Params gives to its inner value),
\* every Params held by a Request or Notification is an object or an array.
C20_ParamsShape ==
    (env.some /\ env.v.type \in {"Request", "Notification"}
        /\ env.v.params.some)
        => env.v.params.v.kind \in {"Object", "Array"}

====
